---- MODULE Spec2Model ----
\* A model of the tutorial HTTP services of go_simplest_restapi:
\*   - 01.separation/main.go : the layered user-registration service
\*     (MemoryUserStorage / UserServiceImpl / JsonOverHTTP);
\*   - main.go               : the in-memory "people" CRUD service.
\* Strings are sequences of one-character strings so that the scans the code
\* performs on them (strings.ContainsRune, fmt.Sprintf("%d")) are computed.
EXTENDS Integers, Sequences, FiniteSets, TLC

VARIABLES
    usrStor,     \* the UserStorer wired into the service (01.separation/main.go:231)
    req,         \* the request the last handler of the user service served
    resp,        \* the response it wrote
    calls,       \* the storage calls that handler made, in order
    svc,         \* whether it invoked the UserService, and the error it got back
    registered,  \* history: the <<email, name>> pairs whose POST /register answered 201
    people,      \* main.go:25, the global slice of the people service
    preq,        \* the request the last people handler served
    presp,       \* the response it wrote (or the panic that ended it)
    pc,          \* concurrent registrations: each handler's position
    cparams,     \* concurrent registrations: each handler's decoded RegisterParams
    cstatus,     \* concurrent registrations: each handler's response status (0: none yet)
    access,      \* concurrent registrations: the map access each handler is inside of
    raced,       \* concurrent registrations: the access in progress is part of a data race
    hadRace,     \* history: some map access so far was part of a data race
    crashed      \* the Go runtime ended the process (fatal error: concurrent map access)

userVars   == <<usrStor, req, resp, calls, svc, registered>>
peopleVars == <<people, preq, presp>>
concVars   == <<pc, cparams, cstatus, access, raced, hadRace, crashed>>
vars       == <<userVars, peopleVars, concVars>>

----------------------------------------------------------------------------
\* Bounds of the model.

MaxLocalLen == 1      \* longest run of letters in an email
MaxPeople   == 4      \* POST /people/add is not taken beyond this many entries
NumProcs    == 2      \* concurrently running register handlers

----------------------------------------------------------------------------
\* Strings.

Rep(c, k) == [i \in 1..k |-> c]

\* Emails: "", "@", "a", "a@", "@a", "aa", "aa@", "@aa", ...
Emails ==
    UNION { { Rep("a", k), Rep("a", k) \o <<"@">>, <<"@">> \o Rep("a", k) } :
            k \in 0..MaxLocalLen }

Names == { <<>>, <<"x">>, <<"y">> }

\* strings.ContainsRune
ContainsRune(s, c) == \E i \in 1..Len(s) : s[i] = c

----------------------------------------------------------------------------
\* Errors (Go error values, compared by identity in the code).

Nil             == "nil"
ErrUserNotFound == "User not found"
ErrEmailExist   == "Email is already in user"
ErrIO           == "storage failure"      \* an opaque error of some other UserStorer

StatusOK                  == 200
StatusCreated             == 201
StatusBadRequest          == 400
StatusForbidden           == 403
StatusNotFound            == 404
StatusMethodNotAllowed    == 405
StatusInternalServerError == 500

----------------------------------------------------------------------------
\* Storage layer.

User(email, name) == [Email |-> email, Name |-> name]

\* the nil *User
NilUser == [Email |-> <<"nil">>, Name |-> <<"nil">>]

EmptyStore == [e \in {} |-> NilUser]

\* A UserStorer value: the MemoryUserStorage with its map, or some other
\* implementation of the interface, given by what its Get and Save return.
MemoryStorer(st) ==
    [kind |-> "memory", store |-> st, getUser |-> NilUser, getErr |-> Nil, saveErr |-> Nil]

StubStorer(u, gerr, serr) ==
    [kind |-> "stub", store |-> EmptyStore, getUser |-> u, getErr |-> gerr, saveErr |-> serr]

NewMemoUserStorage == MemoryStorer(EmptyStore)

\* Get without the `ok` test of the map lookup: a missing key reads as a hit.
MemoryUserStorage_Get_NoOkTest(st, email) ==
    [user |-> (IF email \in DOMAIN st THEN st[email] ELSE NilUser), err |-> Nil]

MemoryUserStorage_Get(st, email) ==
    IF email \in DOMAIN st
    THEN [user |-> st[email], err |-> Nil]
    ELSE [user |-> NilUser, err |-> ErrUserNotFound]

\* Save under the wrong key.
MemoryUserStorage_Save_KeyedByName(st, user) ==
    [store |-> (user.Name :> user) @@ st, err |-> Nil]

MemoryUserStorage_Save(st, user) ==
    [store |-> (user.Email :> user) @@ st, err |-> Nil]

\* dynamic dispatch through the UserStorer interface
UserStorer_Get(s, email) ==
    IF s.kind = "memory"
    THEN MemoryUserStorage_Get(s.store, email)
    ELSE [user |-> (IF s.getErr = Nil THEN s.getUser ELSE NilUser), err |-> s.getErr]

UserStorer_Save(s, user) ==
    IF s.kind = "memory"
    THEN LET r == MemoryUserStorage_Save(s.store, user)
         IN  [storer |-> [s EXCEPT !.store = r.store], err |-> r.err]
    ELSE [storer |-> s, err |-> s.saveErr]

----------------------------------------------------------------------------
\* Business logic.

RegisterParams(email, name) == [Email |-> email, Name |-> name]

\* Validate without the test of the name.
Validate_NoNameTest(rp) ==
    IF rp.Email = <<>> THEN "Email connot be empty"
    ELSE IF ~ContainsRune(rp.Email, "@") THEN "Email must include an '@' symbol"
    ELSE Nil

Validate(rp) ==
    IF rp.Email = <<>> THEN "Email connot be empty"
    ELSE IF ~ContainsRune(rp.Email, "@") THEN "Email must include an '@' symbol"
    ELSE IF rp.Name = <<>> THEN "Name cannot be empty"
    ELSE Nil

\* Register without the existence test: a hit of Get is saved over.
UserServiceImpl_Register_NoExistTest(s, params) ==
    LET g == UserStorer_Get(s, params.Email) IN
    IF g.err # Nil /\ g.err # ErrUserNotFound
    THEN [err |-> g.err, storer |-> s, calls |-> <<"Get">>]
    ELSE LET w == UserStorer_Save(s, User(params.Email, params.Name))
         IN  [err |-> w.err, storer |-> w.storer, calls |-> <<"Get", "Save">>]

\* Register taking every error of Get for ErrUserNotFound.
UserServiceImpl_Register_SaveOnAnyError(s, params) ==
    LET g == UserStorer_Get(s, params.Email) IN
    IF g.err = Nil
    THEN [err |-> ErrEmailExist, storer |-> s, calls |-> <<"Get">>]
    ELSE LET w == UserStorer_Save(s, User(params.Email, params.Name))
         IN  [err |-> w.err, storer |-> w.storer, calls |-> <<"Get", "Save">>]

\* Register: the error returned, the storer afterwards, the storage calls made.
UserServiceImpl_Register(s, params) ==
    LET g == UserStorer_Get(s, params.Email) IN
    IF g.err = Nil
    THEN [err |-> ErrEmailExist, storer |-> s, calls |-> <<"Get">>]
    ELSE IF g.err # ErrUserNotFound
    THEN [err |-> g.err, storer |-> s, calls |-> <<"Get">>]
    ELSE LET w == UserStorer_Save(s, User(params.Email, params.Name))
         IN  [err |-> w.err, storer |-> w.storer, calls |-> <<"Get", "Save">>]

UserServiceImpl_GetByEmail(s, email) ==
    LET g == UserStorer_Get(s, email)
    IN  [user |-> g.user, err |-> g.err, calls |-> <<"Get">>]

----------------------------------------------------------------------------
\* Transport layer.

\* A JSON body: malformed (or empty, or with a value of the wrong type), or an
\* object given as the sequence of its <<key, value>> members.
Body(ms)      == [malformed |-> FALSE, members |-> ms]
MalformedBody == [malformed |-> TRUE, members |-> <<>>]

EmailMembers == { <<>> } \cup { << <<"email", e>> >> : e \in Emails }
NameMembers  == { <<>> } \cup { << <<k, n>> >> : k \in {"name", "Name"}, n \in Names }

Bodies == { MalformedBody } \cup { Body(em \o nm) : em \in EmailMembers, nm \in NameMembers }

\* encoding/json matches a key to a field's tag ignoring case
Lower(k) == CASE k = "Name" -> "name" [] k = "Email" -> "email" [] OTHER -> k

RECURSIVE DecodeMembers(_, _)
DecodeMembers(ms, rp) ==
    IF ms = <<>> THEN rp
    ELSE LET m == Head(ms)
             k == Lower(m[1])
         IN  DecodeMembers(Tail(ms),
                 IF k = "email" THEN [rp EXCEPT !.Email = m[2]]
                 ELSE IF k = "name" THEN [rp EXCEPT !.Name = m[2]]
                 ELSE rp)

\* json.NewDecoder(r.Body).Decode(params) into a zero RegisterParams
Decode(body) ==
    IF body.malformed
    THEN [err |-> TRUE, params |-> RegisterParams(<<>>, <<>>)]
    ELSE [err |-> FALSE, params |-> DecodeMembers(body.members, RegisterParams(<<>>, <<>>))]

\* json.NewEncoder(w).Encode(u) of a *User
Encode(u) == << <<"email", u.Email>>, <<"name", u.Name>> >>

\* r.FormValue(key): the first value of the key in the query, "" when absent
RECURSIVE FormValue(_, _)
FormValue(query, key) ==
    IF query = <<>> THEN <<>>
    ELSE IF Head(query)[1] = key THEN Head(query)[2]
    ELSE FormValue(Tail(query), key)

Request(method, path, body, query) ==
    [method |-> method, path |-> path, body |-> body, query |-> query]

Methods == {"GET", "POST"}

RegisterRequests ==
    { Request(m, "/register", b, <<>>) : m \in Methods, b \in Bodies }

Queries == { <<>> } \cup { << <<"email", e>> >> : e \in Emails }

GetUserRequests ==
    { Request(m, "/user", MalformedBody, q) : m \in Methods, q \in Queries }

Response(status, text, json) == [status |-> status, text |-> text, json |-> json]

\* http.Error
HttpError(text, status) == Response(status, text, <<>>)

NotInvoked   == [invoked |-> FALSE, err |-> Nil]
Invoked(err) == [invoked |-> TRUE, err |-> err]

Outcome(r, s, c, v) == [resp |-> r, storer |-> s, calls |-> c, svc |-> v]

validateEmail(email) ==
    IF email = <<>> THEN "Email must not be empty"
    ELSE IF ~ContainsRune(email, "@") THEN "Email must include an '@' sympol"
    ELSE Nil

\* The steps of JsonOverHTTP.Register before the service call: the response
\* that ends the handler there, or status 0 and the decoded parameters.
RegisterPrecheck(r) ==
    IF r.method # "POST"
    THEN [resp |-> HttpError("Register requires a post request", StatusMethodNotAllowed),
          params |-> RegisterParams(<<>>, <<>>)]
    ELSE LET d == Decode(r.body) IN
         IF d.err
         THEN [resp |-> HttpError("Unable to read your request", StatusBadRequest),
               params |-> d.params]
         ELSE LET v == Validate(d.params) IN
              IF v # Nil
              THEN [resp |-> HttpError(v, StatusBadRequest), params |-> d.params]
              ELSE [resp |-> Response(0, "", <<>>), params |-> d.params]

\* The reply without the ErrEmailExist branch.
RegisterReply_NoForbidden(err) ==
    IF err # Nil THEN HttpError(err, StatusInternalServerError)
    ELSE Response(StatusCreated, "", <<>>)

\* The status JsonOverHTTP.Register answers for the service's error.
RegisterReply(err) ==
    IF err = ErrEmailExist THEN HttpError(err, StatusForbidden)
    ELSE IF err # Nil THEN HttpError(err, StatusInternalServerError)
    ELSE Response(StatusCreated, "", <<>>)

JsonOverHTTP_Register(s, r) ==
    LET p == RegisterPrecheck(r) IN
    IF p.resp.status # 0
    THEN Outcome(p.resp, s, <<>>, NotInvoked)
    ELSE LET x == UserServiceImpl_Register(s, p.params)
         IN  Outcome(RegisterReply(x.err), x.storer, x.calls, Invoked(x.err))

\* The status JsonOverHTTP.GetUser answers for the service's result. Encoding a
\* User (two strings) cannot fail, so the branch of lines 220-223 is not taken.
GetUserReply(user, err) ==
    IF err = ErrUserNotFound THEN HttpError(err, StatusNotFound)
    ELSE IF err # Nil THEN HttpError(err, StatusInternalServerError)
    ELSE Response(StatusOK, "", Encode(user))

JsonOverHTTP_GetUser(s, r) ==
    IF r.method # "GET"
    THEN Outcome(HttpError("GetUser requires a get request", StatusMethodNotAllowed),
                 s, <<>>, NotInvoked)
    ELSE LET email == FormValue(r.query, "email")
             v     == validateEmail(email)
         IN  IF v # Nil
             THEN Outcome(HttpError(v, StatusBadRequest), s, <<>>, NotInvoked)
             ELSE LET x == UserServiceImpl_GetByEmail(s, email)
                  IN  Outcome(GetUserReply(x.user, x.err), s, x.calls, Invoked(x.err))

----------------------------------------------------------------------------
\* The user service, one request after the other: each action is one whole
\* handler. (The handlers interleaved step by step are SpecConc, below.)

NoRequest == Request("", "", MalformedBody, <<>>)

UserInit ==
    /\ usrStor = NewMemoUserStorage
    /\ req = NoRequest
    /\ resp = Response(0, "", <<>>)
    /\ calls = <<>>
    /\ svc = NotInvoked
    /\ registered = {}

PeopleIdle ==
    /\ people = <<>>
    /\ preq = [op |-> "", id |-> <<>>, firstname |-> ""]
    /\ presp = [panicked |-> FALSE, body |-> <<>>]

ConcIdle ==
    /\ pc = [p \in 1..NumProcs |-> "idle"]
    /\ cparams = [p \in 1..NumProcs |-> RegisterParams(<<>>, <<>>)]
    /\ cstatus = [p \in 1..NumProcs |-> 0]
    /\ access = [p \in 1..NumProcs |-> "none"]
    /\ raced = [p \in 1..NumProcs |-> FALSE]
    /\ hadRace = FALSE
    /\ crashed = FALSE

Init == UserInit /\ PeopleIdle /\ ConcIdle

Serve(r, out) ==
    /\ req' = r
    /\ resp' = out.resp
    /\ usrStor' = out.storer
    /\ calls' = out.calls
    /\ svc' = out.svc

\* POST /register (and /register with any other method)
Register(r) ==
    /\ Serve(r, JsonOverHTTP_Register(usrStor, r))
    /\ registered' =
          IF resp'.status = StatusCreated
          THEN LET p == Decode(r.body).params IN registered \cup { <<p.Email, p.Name>> }
          ELSE registered
    /\ UNCHANGED <<peopleVars, concVars>>

\* GET /user?email=... (and /user with any other method)
GetUser(r) ==
    /\ Serve(r, JsonOverHTTP_GetUser(usrStor, r))
    /\ UNCHANGED <<registered, peopleVars, concVars>>

Next ==
    \/ \E r \in RegisterRequests : Register(r)
    \/ \E r \in GetUserRequests : GetUser(r)

Spec == Init /\ [][Next]_vars

----------------------------------------------------------------------------
\* The user service over an arbitrary UserStorer: each request is served by
\* UserServiceImpl over an implementation of the interface whose Get and Save
\* return what they like (the sentinel errors included).

StubUsers == { User(<<"a", "@">>, <<"x">>) }

StubStorers ==
    { StubStorer(u, g, w) :
        u \in StubUsers,
        g \in {Nil, ErrUserNotFound, ErrIO, ErrEmailExist},
        w \in {Nil, ErrIO, ErrUserNotFound} }

RegisterOver(r, s) ==
    /\ Serve(r, JsonOverHTTP_Register(s, r))
    /\ UNCHANGED <<registered, peopleVars, concVars>>

GetUserOver(r, s) ==
    /\ Serve(r, JsonOverHTTP_GetUser(s, r))
    /\ UNCHANGED <<registered, peopleVars, concVars>>

NextAnyStorer ==
    \/ \E r \in RegisterRequests, s \in StubStorers : RegisterOver(r, s)
    \/ \E r \in GetUserRequests, s \in StubStorers : GetUserOver(r, s)

SpecAnyStorer == Init /\ [][NextAnyStorer]_vars

----------------------------------------------------------------------------
\* Properties of the user service.

RegisteredEmails == { pr[1] : pr \in registered }

WellFormed(email) == email # <<>> /\ \E i \in DOMAIN email : email[i] = "@"

FetchOf(e) == Request("GET", "/user", MalformedBody, << <<"email", e>> >>)

\* C1: once a register call for an email has succeeded, every later register
\* call for that email, with any name, fails with ErrEmailExist and changes
\* nothing in the store; over HTTP such a request never answers 201, never
\* changes the store, and answers 403 whenever it reaches the service.
C1_DuplicateRegisterFails ==
    /\ [](\A e \in RegisteredEmails, n \in Names :
            LET x == UserServiceImpl_Register(usrStor, RegisterParams(e, n))
            IN  x.err = ErrEmailExist /\ x.storer = usrStor)
    /\ [][(req'.path = "/register" /\ Decode(req'.body).params.Email \in RegisteredEmails)
            => /\ usrStor' = usrStor
               /\ resp'.status # StatusCreated
               /\ svc'.invoked => (svc'.err = ErrEmailExist /\ resp'.status = StatusForbidden)]_vars

C1_Witness ==
    /\ req.path = "/register"
    /\ resp.status = StatusForbidden
    /\ \E pr \in registered :
          /\ pr[1] = Decode(req.body).params.Email
          /\ pr[2] # Decode(req.body).params.Name
    /\ Cardinality(DOMAIN usrStor.store) >= 2

\* C2: a POST /register whose email is empty or has no '@', or whose name is
\* empty, is answered 400 without the service being invoked: no storage call
\* is made and the store is the same before and after.
C2_InvalidRegisterTouchesNothing ==
    [][(/\ req'.path = "/register"
        /\ req'.method = "POST"
        /\ LET p == Decode(req'.body).params
           IN  ~WellFormed(p.Email) \/ p.Name = <<>>)
       => /\ resp'.status = StatusBadRequest
          /\ ~svc'.invoked
          /\ calls' = <<>>
          /\ usrStor' = usrStor]_vars

C2_Witness ==
    /\ req.path = "/register"
    /\ req.method = "POST"
    /\ ~req.body.malformed
    /\ WellFormed(Decode(req.body).params.Email)
    /\ Decode(req.body).params.Name = <<>>
    /\ resp.status = StatusBadRequest
    /\ usrStor.store # EmptyStore

\* C3: once a register call for (e, n) has succeeded, a fetch of e answers the
\* user with exactly email e and name n, in every later state: both the fetch
\* the last request made and the fetch any next request would make.
C3_RegisteredUserIsFetchedUnchanged ==
    /\ \A pr \in registered :
          LET out == JsonOverHTTP_GetUser(usrStor, FetchOf(pr[1]))
          IN  /\ out.resp = Response(StatusOK, "", << <<"email", pr[1]>>, <<"name", pr[2]>> >>)
              /\ out.storer = usrStor
    /\ (req.path = "/user" /\ req.method = "GET")
          => \A pr \in registered :
                pr[1] = FormValue(req.query, "email")
                   => resp = Response(StatusOK, "", << <<"email", pr[1]>>, <<"name", pr[2]>> >>)

C3_Witness ==
    /\ req.path = "/user"
    /\ req.method = "GET"
    /\ resp.status = StatusOK
    /\ Cardinality(registered) >= 3

\* C7: the status of a response of /register and /user is that of the first
\* failing step: method (405), then body decoding and validation (400), then
\* the service call (/register: ErrEmailExist 403, any other error 500;
\* /user: ErrUserNotFound 404, any other error 500); with no failing step
\* /register answers 201 and /user the encoded user; the service is invoked
\* only when the steps before it passed.
C7_Expected(r, v, s) ==
    IF r.path = "/register"
    THEN IF r.method # "POST" THEN [status |-> StatusMethodNotAllowed, invoked |-> FALSE]
         ELSE IF r.body.malformed THEN [status |-> StatusBadRequest, invoked |-> FALSE]
         ELSE IF ~WellFormed(Decode(r.body).params.Email) \/ Decode(r.body).params.Name = <<>>
              THEN [status |-> StatusBadRequest, invoked |-> FALSE]
         ELSE IF v.err = ErrEmailExist THEN [status |-> StatusForbidden, invoked |-> TRUE]
         ELSE IF v.err # Nil THEN [status |-> StatusInternalServerError, invoked |-> TRUE]
         ELSE [status |-> StatusCreated, invoked |-> TRUE]
    ELSE IF r.method # "GET" THEN [status |-> StatusMethodNotAllowed, invoked |-> FALSE]
         ELSE IF ~WellFormed(FormValue(r.query, "email"))
              THEN [status |-> StatusBadRequest, invoked |-> FALSE]
         ELSE IF v.err = ErrUserNotFound THEN [status |-> StatusNotFound, invoked |-> TRUE]
         ELSE IF v.err # Nil THEN [status |-> StatusInternalServerError, invoked |-> TRUE]
         ELSE [status |-> StatusOK, invoked |-> TRUE]

C7_StatusOfFirstFailingStep ==
    req # NoRequest =>
        LET x == C7_Expected(req, svc, usrStor) IN
        /\ resp.status = x.status
        /\ svc.invoked = x.invoked
        /\ (req.path = "/user" /\ resp.status = StatusOK) => resp.json = Encode(usrStor.getUser)
        /\ resp.status \notin {StatusOK, StatusCreated} => resp.json = <<>> /\ resp.text # ""

C7_Witness ==
    /\ req.path = "/register"
    /\ svc.invoked
    /\ svc.err = ErrIO
    /\ resp.status = StatusInternalServerError

\* C8: a fetch of an email for which no register call has succeeded yields
\* ErrUserNotFound from the service in every reachable state, whatever else is
\* registered; over HTTP the fetch (its email passing validateEmail) answers
\* 404; the store is left as it was.
C8_UnregisteredIsNotFound ==
    /\ [](\A e \in Emails \ RegisteredEmails :
            /\ UserServiceImpl_GetByEmail(usrStor, e).err = ErrUserNotFound
            /\ WellFormed(e) =>
                  LET out == JsonOverHTTP_GetUser(usrStor, FetchOf(e))
                  IN  out.resp.status = StatusNotFound /\ out.storer = usrStor)
    /\ [][(/\ req'.path = "/user"
           /\ req'.method = "GET"
           /\ WellFormed(FormValue(req'.query, "email"))
           /\ FormValue(req'.query, "email") \notin RegisteredEmails)
          => /\ resp'.status = StatusNotFound
             /\ svc' = Invoked(ErrUserNotFound)
             /\ usrStor' = usrStor]_vars

C8_Witness ==
    /\ req.path = "/user"
    /\ req.method = "GET"
    /\ resp.status = StatusNotFound
    /\ svc = Invoked(ErrUserNotFound)
    /\ registered # {}
    /\ FormValue(req.query, "email") \notin RegisteredEmails

\* C9: over any UserStorer, when Get returns an error other than
\* ErrUserNotFound Register returns that error and does not call Save; Save is
\* called exactly when Get returned ErrUserNotFound, and Register's result is
\* then Save's result.
C9_RegisterPropagatesStorageErrors ==
    (req.path = "/register" /\ svc.invoked) =>
        /\ usrStor.getErr \notin {Nil, ErrUserNotFound}
              => svc.err = usrStor.getErr /\ calls = <<"Get">>
        /\ (calls = <<"Get", "Save">>) <=> (usrStor.getErr = ErrUserNotFound)
        /\ usrStor.getErr = ErrUserNotFound => svc.err = usrStor.saveErr
        /\ calls \in { <<"Get">>, <<"Get", "Save">> }

C9_Witness ==
    /\ req.path = "/register"
    /\ svc.invoked
    /\ usrStor.getErr = ErrIO
    /\ usrStor.saveErr = Nil
    /\ svc.err = ErrIO
    /\ calls = <<"Get">>

----------------------------------------------------------------------------
\* The people service (main.go). A Person is modelled by its ID and its
\* Firstname; Lastname and Address are carried exactly as Firstname is.

Person(id, firstname) == [ID |-> id, Firstname |-> firstname]

Digits == <<"0", "1", "2", "3", "4", "5", "6", "7", "8", "9">>

\* fmt.Sprintf("%d", n) for n >= 0
RECURSIVE Sprintf_d(_)
Sprintf_d(n) ==
    IF n < 10 THEN << Digits[n + 1] >>
    ELSE Sprintf_d(n \div 10) \o << Digits[(n % 10) + 1] >>

Firstnames == {"", "Hung", "Lan"}

\* the {id} of a request path: the IDs the service can have assigned so far,
\* and one the service never assigns
PathIds == { Sprintf_d(n) : n \in 1..(MaxPeople + 1) } \cup { <<"0", "1">> }

SeededPeople == << Person(<<"1">>, "Alex"), Person(<<"2">>, "Minh") >>

PeopleRequest(op, id, firstname) == [op |-> op, id |-> id, firstname |-> firstname]

PeopleResponse(panicked, body) == [panicked |-> panicked, body |-> body]

\* getPeopleEndpoint
getPeopleEndpoint ==
    /\ preq' = PeopleRequest("GET /people", <<>>, "")
    /\ presp' = PeopleResponse(FALSE, people)
    /\ UNCHANGED <<people, userVars, concVars>>

\* getPersonEndpoint: the first entry with the ID, or the zero Person
getPersonEndpoint(id) ==
    /\ preq' = PeopleRequest("GET /people/{id}", id, "")
    /\ presp' = PeopleResponse(FALSE,
          LET hits == SelectSeq(people, LAMBDA item : item.ID = id)
          IN  IF hits # <<>> THEN << Head(hits) >> ELSE << Person(<<>>, "") >>)
    /\ UNCHANGED <<people, userVars, concVars>>

\* createPersonEndpoint: the body's fields (zero when it does not decode) under
\* the ID len(people)+1
createPersonEndpoint(firstname) ==
    /\ Len(people) < MaxPeople
    /\ LET person == Person(Sprintf_d(Len(people) + 1), firstname) IN
       /\ people' = Append(people, person)
       /\ presp' = PeopleResponse(FALSE, << person >>)
    /\ preq' = PeopleRequest("POST /people/add", <<>>, firstname)
    /\ UNCHANGED <<userVars, concVars>>

\* The loop of deletePersonEndpoint. `arr` is the backing array as the range
\* expression saw it (n entries, evaluated once); `len` is the current length
\* of the global slice, which shares that array; `index` counts from 1. On a
\* match append(people[:index], people[index+1:]...) moves the tail down in
\* place and shortens the slice; people[index+1:] panics when index+1 exceeds
\* the current length.
RECURSIVE DeleteLoop(_, _, _, _)
DeleteLoop(arr, len, index, id) ==
    IF index > Len(arr)
    THEN [people |-> SubSeq(arr, 1, len), panicked |-> FALSE]
    ELSE IF arr[index].ID # id
    THEN DeleteLoop(arr, len, index + 1, id)
    ELSE IF index > len
    THEN [people |-> SubSeq(arr, 1, len), panicked |-> TRUE]
    ELSE DeleteLoop(
            [i \in 1..Len(arr) |-> IF i >= index /\ i < len THEN arr[i + 1] ELSE arr[i]],
            len - 1, index + 1, id)

\* deletePersonEndpoint; a panic ends the handler without a response (net/http
\* recovers it and closes the connection), the slice staying as last assigned
deletePersonEndpoint(id) ==
    /\ preq' = PeopleRequest("DELETE /people/{id}", id, "")
    /\ LET d == DeleteLoop(people, Len(people), 1, id) IN
       /\ people' = d.people
       /\ presp' = IF d.panicked THEN PeopleResponse(TRUE, <<>>)
                                 ELSE PeopleResponse(FALSE, d.people)
    /\ UNCHANGED <<userVars, concVars>>

PeopleInit ==
    /\ people = SeededPeople
    /\ preq = PeopleRequest("", <<>>, "")
    /\ presp = PeopleResponse(FALSE, <<>>)

InitPeople == UserInit /\ PeopleInit /\ ConcIdle

NextPeople ==
    \/ getPeopleEndpoint
    \/ \E id \in PathIds : getPersonEndpoint(id)
    \/ \E f \in Firstnames : createPersonEndpoint(f)
    \/ \E id \in PathIds : deletePersonEndpoint(id)

SpecPeople == InitPeople /\ [][NextPeople]_vars

\* C4: DELETE /people/{id} completes normally and leaves the collection
\* without the entry of that id, every other entry staying with its fields and
\* in its order; with no entry of that id the collection is unchanged.
C4_DeleteRemovesExactlyThatEntry ==
    [][preq'.op = "DELETE /people/{id}"
        => /\ ~presp'.panicked
           /\ people' = SelectSeq(people, LAMBDA item : item.ID # preq'.id)
           /\ presp'.body = people']_vars

\* C5: no two stored persons have the same ID.
C5_UniqueIDs ==
    \A i, j \in 1..Len(people) : people[i].ID = people[j].ID => i = j

----------------------------------------------------------------------------
\* Register handlers running concurrently. net/http serves every connection in
\* its own goroutine and nothing guards the map of MemoryUserStorage, so the
\* handlers' Get (line 42, a map read) and Save (line 49, a map write)
\* interleave and overlap. A map access takes time: it begins and it ends. Two
\* overlapping accesses of which one writes are a data race, whose outcome Go
\* leaves open: the runtime may end the process ("fatal error: concurrent map
\* writes" / "concurrent map read and map write"), the read may see either
\* state, the write may or may not take effect.

Procs == 1..NumProcs

Others(p) == Procs \ {p}

RacesWith(p, kind) ==
    { q \in Others(p) : access[q] # "none" /\ (kind = "w" \/ access[q] = "w") }

BeginAccess(p, kind) ==
    /\ access' = [access EXCEPT ![p] = kind]
    /\ raced' = [q \in Procs |->
                    IF RacesWith(p, kind) # {} /\ q \in RacesWith(p, kind) \cup {p}
                    THEN TRUE ELSE raced[q]]
    /\ hadRace' = (hadRace \/ RacesWith(p, kind) # {})

EndAccess(p) ==
    /\ access' = [access EXCEPT ![p] = "none"]
    /\ raced' = [raced EXCEPT ![p] = FALSE]

RaceOutcomes(p) == IF raced[p] THEN {"normal", "other", "fatal"} ELSE {"normal"}

Fatal ==
    /\ crashed' = TRUE
    /\ UNCHANGED <<pc, cparams, cstatus, access, raced, usrStor>>

\* JsonOverHTTP.Register up to the service call
ConcReceive(p, r) ==
    /\ ~crashed
    /\ pc[p] = "idle"
    /\ LET pre == RegisterPrecheck(r) IN
       IF pre.resp.status # 0
       THEN /\ pc' = [pc EXCEPT ![p] = "done"]
            /\ cstatus' = [cstatus EXCEPT ![p] = pre.resp.status]
            /\ UNCHANGED cparams
       ELSE /\ pc' = [pc EXCEPT ![p] = "get"]
            /\ cparams' = [cparams EXCEPT ![p] = pre.params]
            /\ UNCHANGED cstatus
    /\ UNCHANGED <<access, raced, hadRace, crashed, usrStor>>
    /\ UNCHANGED <<req, resp, calls, svc, registered, peopleVars>>

\* UserServiceImpl.Register line 102: the map read of Get begins
ConcGetBegin(p) ==
    /\ ~crashed
    /\ pc[p] = "get"
    /\ pc' = [pc EXCEPT ![p] = "getting"]
    /\ BeginAccess(p, "r")
    /\ UNCHANGED <<cparams, cstatus, crashed, usrStor>>
    /\ UNCHANGED <<req, resp, calls, svc, registered, peopleVars>>

\* ... and ends; lines 104-108 and the reply of lines 171-173
ConcGetEnd(p) ==
    /\ ~crashed
    /\ pc[p] = "getting"
    /\ \E o \in RaceOutcomes(p) :
          IF o = "fatal" THEN Fatal
          ELSE LET g   == MemoryUserStorage_Get(usrStor.store, cparams[p].Email)
                   err == IF o = "normal" THEN g.err
                          ELSE IF g.err = Nil THEN ErrUserNotFound ELSE Nil
               IN  /\ EndAccess(p)
                   /\ IF err = Nil
                      THEN /\ pc' = [pc EXCEPT ![p] = "done"]
                           /\ cstatus' = [cstatus EXCEPT ![p] = RegisterReply(ErrEmailExist).status]
                      ELSE /\ pc' = [pc EXCEPT ![p] = "save"]
                           /\ UNCHANGED cstatus
                   /\ UNCHANGED <<cparams, crashed, usrStor>>
    /\ UNCHANGED <<hadRace, req, resp, calls, svc, registered, peopleVars>>

\* UserServiceImpl.Register line 110: the map write of Save begins
ConcSaveBegin(p) ==
    /\ ~crashed
    /\ pc[p] = "save"
    /\ pc' = [pc EXCEPT ![p] = "saving"]
    /\ BeginAccess(p, "w")
    /\ UNCHANGED <<cparams, cstatus, crashed, usrStor>>
    /\ UNCHANGED <<req, resp, calls, svc, registered, peopleVars>>

\* ... and ends; Save returns nil and the handler answers 201 (line 179)
ConcSaveEnd(p) ==
    /\ ~crashed
    /\ pc[p] = "saving"
    /\ \E o \in RaceOutcomes(p) :
          IF o = "fatal" THEN Fatal
          ELSE LET w == MemoryUserStorage_Save(usrStor.store,
                                               User(cparams[p].Email, cparams[p].Name))
               IN  /\ EndAccess(p)
                   /\ usrStor' = IF o = "normal" THEN [usrStor EXCEPT !.store = w.store]
                                 ELSE usrStor
                   /\ pc' = [pc EXCEPT ![p] = "done"]
                   /\ cstatus' = [cstatus EXCEPT ![p] = RegisterReply(w.err).status]
                   /\ UNCHANGED <<cparams, crashed>>
    /\ UNCHANGED <<hadRace, req, resp, calls, svc, registered, peopleVars>>

NextConc ==
    \/ \E p \in Procs, r \in RegisterRequests : ConcReceive(p, r)
    \/ \E p \in Procs : ConcGetBegin(p)
    \/ \E p \in Procs : ConcGetEnd(p)
    \/ \E p \in Procs : ConcSaveBegin(p)
    \/ \E p \in Procs : ConcSaveEnd(p)

SpecConc == Init /\ [][NextConc]_vars

\* the handlers whose request reached the service
Reached(p) == pc[p] \in {"get", "getting", "save", "saving"} \/ cstatus[p] \in {StatusCreated, StatusForbidden}

\* C6: concurrent register requests with pairwise distinct, valid,
\* not-yet-registered emails all succeed and each email is afterwards stored
\* with the fields submitted for it; and in no state do two handlers access
\* the map at the same time with one of them writing.
C6_ConcurrentDistinctRegistrations ==
    /\ \A p \in Procs, q \in Procs :
          (p # q /\ Reached(p) /\ Reached(q) /\ cparams[p].Email # cparams[q].Email)
             => ~(access[p] # "none" /\ access[q] = "w")
    /\ (/\ \A p \in Procs : pc[p] = "done" /\ Reached(p)
        /\ \A p \in Procs, q \in Procs : p # q => cparams[p].Email # cparams[q].Email)
          => \A p \in Procs :
                /\ cstatus[p] = StatusCreated
                /\ MemoryUserStorage_Get(usrStor.store, cparams[p].Email)
                      = [user |-> User(cparams[p].Email, cparams[p].Name), err |-> Nil]

\* C10: of two concurrent register requests with the same valid,
\* not-yet-registered email at most one answers 201 and the other answers 403,
\* and the user stored in the end has the name of the one that answered 201.
\* Stated for the runs in which no two map accesses overlapped, where every
\* Get and Save took effect as written.
C10_OneWinnerPerEmail ==
    \A p \in Procs, q \in Procs :
        (/\ ~hadRace
         /\ p # q
         /\ pc[p] = "done" /\ Reached(p)
         /\ pc[q] = "done" /\ Reached(q)
         /\ cparams[p].Email = cparams[q].Email)
        => /\ {cstatus[p], cstatus[q]} = {StatusCreated, StatusForbidden}
           /\ cstatus[p] = StatusCreated
                 => MemoryUserStorage_Get(usrStor.store, cparams[p].Email).user.Name
                       = cparams[p].Name

====
